---- MODULE Spec2Model ----
(***************************************************************************)
(* Model of src/client.py: MCPClient.process_query (the tool-calling       *)
(* orchestration loop), MCPClient.chat_loop (the interactive loop around   *)
(* it) and main (connect, chat, cleanup).                                  *)
(*                                                                         *)
(* The program is a single asyncio task.  One step of the model is the     *)
(* code that runs between two suspension points (input(), await            *)
(* list_tools, await chat.completions.create, await call_tool).  The       *)
(* model API and the MCP server are the environment: what they answer is   *)
(* chosen with \E from small sets.                                         *)
(***************************************************************************)
EXTENDS Integers, Sequences, FiniteSets, TLC

VARIABLES
    pc,               \* where the task is suspended
    query,            \* chat_loop: the local `query`
    messages,         \* process_query: the list `messages` of the latest frame
    available_tools,  \* process_query: the local `available_tools`
    response_message, \* process_query: the local `response_message`
    tool_results,     \* process_query: the local `tool_results`
    idx,              \* process_query: position of the for loop in tool_calls
    serverTools,      \* the tools the MCP server advertises right now
    request,          \* the arguments of the latest chat.completions.create call
    toolReq,          \* the arguments of the latest session.call_tool call
    result,           \* process_query: the local `result` (a CallToolResult)
    outcome,          \* how the latest process_query ended (return / raise)
    printed,          \* what chat_loop printed for the latest query
    reported,         \* number of errors chat_loop has reported so far
    queries,          \* number of process_query invocations so far
    nList,            \* list_tools calls made by the current process_query
    nModel,           \* model calls made by the current process_query
    nTool,            \* call_tool calls made by the current process_query
    cleanups,         \* number of times cleanup() ran
    answers,          \* what list_tools, the model and call_tool answered to
                      \* the current process_query, in order
    firstRun          \* a replay test's record of the first process_query

vars == <<pc, query, messages, available_tools, response_message, tool_results,
          idx, result, serverTools, request, toolReq, outcome, printed,
          reported, queries, nList, nModel, nTool, cleanups, answers,
          firstRun>>

(***************************************************************************)
(* Bounds of the model.                                                    *)
(***************************************************************************)
MaxQueries == 2
MaxTurns == 5
MaxCalls == 2

(***************************************************************************)
(* Values.                                                                 *)
(***************************************************************************)
None == "None"

QueryTexts == {"list open issues", "show issue 7"}

Contents == {"There are 3 open issues.", None}

GoodPayload == "{\"repo\": \"x\"}"
BadPayload == "{\"repo\": "
Payloads == {GoodPayload, BadPayload}

ListIssues == [name |-> "list_issues", description |-> "List issues",
               inputSchema |-> "schema_list_issues"]
GetIssue == [name |-> "get_issue", description |-> "Get one issue",
             inputSchema |-> "schema_get_issue"]
Catalogs == {<<ListIssues>>, <<ListIssues, GetIssue>>}
ToolNames == {"list_issues", "get_issue"}

NoRequest == [messages |-> <<>>, tools |-> <<>>]
NoToolReq == [name |-> None, arguments |-> None]
NoResponse == [role |-> "none", content |-> None, tool_calls |-> <<>>]
NoToolResult == [isError |-> FALSE, content |-> None]
NoResult == [kind |-> "none", value |-> None]
NoPrint == [kind |-> "none", text |-> None]
NoFirstRun == [query |-> None, answers |-> <<>>, messages |-> <<>>,
               outcome |-> NoResult]

\* One answer of the model API or of the MCP server.
Answer(kind, value) == [kind |-> kind, value |-> value]

(***************************************************************************)
(* Pure helpers of process_query.                                          *)
(***************************************************************************)
UserTurn(q) == [role |-> "user", content |-> q]

\* Variant of NewConversation: messages is kept across invocations (an
\* attribute of the client) and the user turn is appended to it.
KeptConversation(q) == Append(messages, UserTurn(q))

NewConversation(q) == <<UserTurn(q)>>

Translate(tool) ==
    [type |-> "function",
     function |-> [name |-> tool.name,
                   description |-> tool.description,
                   parameters |-> tool.inputSchema]]

TranslateAll(tools) == [i \in 1..Len(tools) |-> Translate(tools[i])]

JsonLoads(payload) ==
    IF payload = GoodPayload
    THEN [ok |-> TRUE, value |-> [repo |-> "x"]]
    ELSE [ok |-> FALSE, value |-> "JSONDecodeError"]

\* Variant of ToolTurn: the turn is labelled with the identifier of the
\* round's first call (tool_calls[0].id) instead of the call's own.
ToolTurnFirstId(tool_call, res) ==
    [tool_call_id |-> response_message.tool_calls[1].id,
     role |-> "tool",
     name |-> tool_call.function.name,
     content |-> res.content]

ToolTurn(tool_call, res) ==
    [tool_call_id |-> tool_call.id,
     role |-> "tool",
     name |-> tool_call.function.name,
     content |-> res.content]

tool_calls == response_message.tool_calls

(***************************************************************************)
(* The environment: what the model API and the MCP server may answer.      *)
(***************************************************************************)
Rounds(msgs) == Cardinality({i \in 1..Len(msgs) : msgs[i].role = "assistant"})

FinalResponses ==
    {[role |-> "assistant", content |-> c, tool_calls |-> <<>>] : c \in Contents}

ToolCall(r, i, name, payload) ==
    [id |-> <<r, i>>, function |-> [name |-> name, arguments |-> payload]]

ToolResponses(msgs) ==
    UNION {
        {[role |-> "assistant", content |-> None,
          tool_calls |-> [i \in 1..k |->
                            ToolCall(Rounds(msgs) + 1, i, ns[i], ps[i])]] :
            ns \in [1..k -> ToolNames], ps \in [1..k -> Payloads]} :
        k \in {j \in 1..MaxCalls : Len(msgs) + 1 + j <= MaxTurns}}

Advertised == {serverTools[i].name : i \in 1..Len(serverTools)}

ToolOutcomes(name) ==
    IF name \in Advertised
    THEN {[isError |-> FALSE, content |-> "{\"count\": 3}"],
          [isError |-> TRUE, content |-> "tool execution failed"]}
    ELSE {[isError |-> TRUE, content |-> "unknown tool"]}

(***************************************************************************)
(* Steps of process_query and chat_loop.                                   *)
(***************************************************************************)
\* Variant of Raise: chat_loop has no except clause, so the exception ends
\* chat_loop and main's finally runs.
RaiseFatal(e) ==
    /\ outcome' = [kind |-> "raise", value |-> e]
    /\ printed' = printed
    /\ reported' = reported
    /\ pc' = "cleanup"

\* chat_loop: an Exception raised inside process_query is caught by
\* `except Exception`, reported, and the loop goes back to input().
Raise(e) ==
    /\ outcome' = [kind |-> "raise", value |-> e]
    /\ printed' = [kind |-> "error", text |-> e]
    /\ reported' = reported + 1
    /\ pc' = "input"

\* Variant of FailListTools: the failure is swallowed and the query goes on
\* with an empty tool list.
FailListToolsIgnored ==
    /\ available_tools' = <<>>
    /\ request' = [messages |-> messages, tools |-> <<>>]
    /\ nModel' = nModel + 1
    /\ pc' = "model"
    /\ UNCHANGED <<outcome, printed, reported>>

\* await self.session.list_tools() raises: nothing of process_query after it runs.
FailListTools ==
    /\ Raise("ListToolsError")
    /\ UNCHANGED <<available_tools, request, nModel>>

\* Variant of ToolsForCall: the tools are listed again for every model call.
ToolsRelisted(avail) == TranslateAll(serverTools)

\* The list handed to chat.completions.create as tools=.
ToolsForCall(avail) == avail

\* Variant of IssueModelCall: only the last three turns are sent
\* (messages[-3:]).
IssueModelCallLastThree(msgs, avail) ==
    /\ request' = [messages |-> IF Len(msgs) > 3
                                THEN SubSeq(msgs, Len(msgs) - 2, Len(msgs))
                                ELSE msgs,
                   tools |-> ToolsForCall(avail)]
    /\ nModel' = nModel + 1
    /\ pc' = "model"

\* await self.openai_client.chat.completions.create(messages=..., tools=...)
IssueModelCall(msgs, avail) ==
    /\ request' = [messages |-> msgs, tools |-> ToolsForCall(avail)]
    /\ nModel' = nModel + 1
    /\ pc' = "model"

\* Variant of ReturnAnswer: a response without text is not returned;
\* process_query waits for a text that nothing will deliver.
ReturnAnswerWhenText(resp) ==
    /\ outcome' = IF resp.content = None
                  THEN outcome
                  ELSE [kind |-> "return", value |-> resp.content]
    /\ printed' = IF resp.content = None
                  THEN printed
                  ELSE [kind |-> "reply", text |-> resp.content]
    /\ reported' = reported
    /\ pc' = IF resp.content = None THEN "blocked" ELSE "input"
    /\ messages' = messages

\* Variant of ReturnAnswer: `return response_message.content or ""`.
ReturnAnswerOrEmpty(resp) ==
    /\ outcome' = [kind |-> "return",
                   value |-> IF resp.content = None THEN "" ELSE resp.content]
    /\ printed' = [kind |-> "reply",
                   text |-> IF resp.content = None THEN "" ELSE resp.content]
    /\ reported' = reported
    /\ pc' = "input"
    /\ messages' = messages

\* Variant of ReturnAnswer: the final answer is appended to messages before
\* it is returned.
ReturnAnswerAppending(resp) ==
    /\ outcome' = [kind |-> "return", value |-> resp.content]
    /\ printed' = IF resp.content = None
                  THEN [kind |-> "error", text |-> "TypeError"]
                  ELSE [kind |-> "reply", text |-> resp.content]
    /\ reported' = IF resp.content = None THEN reported + 1 ELSE reported
    /\ pc' = "input"
    /\ messages' = Append(messages, resp)

\* `if not tool_calls: return response_message.content`, and chat_loop
\* printing "\n模型回覆:\n" + response (a TypeError when the content is None).
ReturnAnswer(resp) ==
    /\ outcome' = [kind |-> "return", value |-> resp.content]
    /\ printed' = IF resp.content = None
                  THEN [kind |-> "error", text |-> "TypeError"]
                  ELSE [kind |-> "reply", text |-> resp.content]
    /\ reported' = IF resp.content = None THEN reported + 1 ELSE reported
    /\ pc' = "input"
    /\ messages' = messages

\* Variant of RunToolCall: the remaining calls of the round are dispatched
\* together (asyncio.gather) instead of one per iteration.
RunToolCallAll(calls, i) ==
    LET parsed == JsonLoads(calls[i].function.arguments) IN
    IF parsed.ok
    THEN /\ toolReq' = [name |-> calls[Len(calls)].function.name,
                        arguments |-> parsed.value]
         /\ nTool' = nTool + (Len(calls) - i + 1)
         /\ idx' = Len(calls)
         /\ pc' = "tool"
         /\ UNCHANGED <<outcome, printed, reported>>
    ELSE /\ Raise(parsed.value)
         /\ UNCHANGED <<toolReq, nTool, idx>>

\* Variant of RunToolCall: every iteration invokes the round's first call.
RunToolCallFirst(calls, i) ==
    LET parsed == JsonLoads(calls[i].function.arguments) IN
    IF parsed.ok
    THEN /\ toolReq' = [name |-> calls[1].function.name,
                        arguments |-> parsed.value]
         /\ nTool' = nTool + 1
         /\ idx' = i
         /\ pc' = "tool"
         /\ UNCHANGED <<outcome, printed, reported>>
    ELSE /\ Raise(parsed.value)
         /\ UNCHANGED <<toolReq, nTool, idx>>

\* Variant of RunToolCall: a payload that does not parse is swallowed and the
\* tool is called without arguments.
RunToolCallLenient(calls, i) ==
    LET parsed == JsonLoads(calls[i].function.arguments) IN
    /\ toolReq' = [name |-> calls[i].function.name,
                   arguments |-> IF parsed.ok THEN parsed.value ELSE None]
    /\ nTool' = nTool + 1
    /\ idx' = i
    /\ pc' = "tool"
    /\ UNCHANGED <<outcome, printed, reported>>

\* One iteration of `for tool_call in tool_calls` up to its await.
RunToolCall(calls, i) ==
    LET parsed == JsonLoads(calls[i].function.arguments) IN
    IF parsed.ok
    THEN /\ toolReq' = [name |-> calls[i].function.name,
                        arguments |-> parsed.value]
         /\ nTool' = nTool + 1
         /\ idx' = i
         /\ pc' = "tool"
         /\ UNCHANGED <<outcome, printed, reported>>
    ELSE /\ Raise(parsed.value)
         /\ UNCHANGED <<toolReq, nTool, idx>>

\* Variant of AppendResult: a result flagged isError is dropped instead of
\* being recorded for the model.
AppendResultDroppingErrors(tool_call, res) ==
    /\ result' = res
    /\ tool_results' = IF res.isError
                       THEN tool_results
                       ELSE Append(tool_results, ToolTurn(tool_call, res))

\* result = await call_tool(...) returned; tool_results.append({...}).
AppendResult(tool_call, res) ==
    /\ result' = res
    /\ tool_results' = Append(tool_results, ToolTurn(tool_call, res))

\* Variant of MessagesAwaitRoundEnd: each result is appended to messages as
\* soon as its call returns.
MessagesExtendedPerCall ==
    messages' = Append(messages, tool_results'[Len(tool_results')])

\* Between two calls of a round the result sits in the local tool_results
\* only; messages is not touched until messages.extend(tool_results).
MessagesAwaitRoundEnd == messages' = messages

\* Variant of ConnectFails: the failure escapes main without the finally
\* clause.
ConnectFailsNoCleanup ==
    /\ pc = "connect"
    /\ pc' = "exited"
    /\ UNCHANGED <<answers, firstRun>>
    /\ UNCHANGED <<query, messages, available_tools, response_message,
                   tool_results, idx, result, serverTools, request, toolReq,
                   outcome, printed, reported, queries, nList, nModel, nTool,
                   cleanups>>

\* Variant of FinishRound: the loop gives up after two rounds of tool calls.
FinishRoundCapped(results) ==
    /\ messages' = messages \o results
    /\ IF Rounds(messages) >= 2
       THEN /\ outcome' = [kind |-> "return", value |-> "max rounds reached"]
            /\ printed' = [kind |-> "reply", text |-> "max rounds reached"]
            /\ pc' = "input"
            /\ UNCHANGED <<request, nModel, reported>>
       ELSE /\ IssueModelCall(messages', available_tools)
            /\ UNCHANGED <<outcome, printed, reported>>

\* Variant of FinishRound: messages is rebound to the round's results.
FinishRoundReplacing(results) ==
    /\ messages' = results
    /\ IssueModelCall(messages', available_tools)
    /\ UNCHANGED <<outcome, printed, reported>>

\* messages.extend(tool_results), then the next iteration of `while True`.
FinishRound(results) ==
    /\ messages' = messages \o results
    /\ IssueModelCall(messages', available_tools)
    /\ UNCHANGED <<outcome, printed, reported>>

(***************************************************************************)
(* Actions.                                                                *)
(***************************************************************************)
\* main: load_server_config and connect_to_server succeed; chat_loop starts.
Connect ==
    /\ pc = "connect"
    /\ pc' = "input"
    /\ UNCHANGED <<answers, firstRun>>
    /\ UNCHANGED <<query, messages, available_tools, response_message,
                   tool_results, idx, result, serverTools, request, toolReq,
                   outcome, printed, reported, queries, nList, nModel, nTool,
                   cleanups>>

\* main: connect_to_server raises; the finally clause runs.
ConnectFails ==
    /\ pc = "connect"
    /\ pc' = "cleanup"
    /\ UNCHANGED <<answers, firstRun>>
    /\ UNCHANGED <<query, messages, available_tools, response_message,
                   tool_results, idx, result, serverTools, request, toolReq,
                   outcome, printed, reported, queries, nList, nModel, nTool,
                   cleanups>>

\* chat_loop: the user types 'quit'.
ReadQuit ==
    /\ pc = "input"
    /\ query' = "quit"
    /\ pc' = "cleanup"
    /\ UNCHANGED <<answers, firstRun>>
    /\ UNCHANGED <<messages, available_tools, response_message, tool_results,
                   idx, result, serverTools, request, toolReq, outcome,
                   printed, reported, queries, nList, nModel, nTool, cleanups>>

\* chat_loop: the user types an empty line.
ReadEmpty ==
    /\ pc = "input"
    /\ query' = ""
    /\ UNCHANGED <<answers, firstRun>>
    /\ UNCHANGED <<pc, messages, available_tools, response_message,
                   tool_results, idx, result, serverTools, request, toolReq,
                   outcome, printed, reported, queries, nList, nModel, nTool,
                   cleanups>>

\* Variant of AtPrompt: process_query is started without being awaited, so
\* chat_loop reads the next line while a query is still running.
AtPromptOrBusy == pc \in {"input", "list_tools", "model", "tool"}

\* chat_loop is at input(): reached at start and again only after
\* `await self.process_query(query)` has returned or raised.
AtPrompt == pc = "input"

\* chat_loop: the user types a query; process_query runs up to list_tools.
\* A new frame starts: its locals are unbound, and nothing has been asked of
\* the model or the server on behalf of this query yet.
ReadQuery(q) ==
    /\ AtPrompt
    /\ queries < MaxQueries
    /\ query' = q
    /\ queries' = queries + 1
    /\ messages' = NewConversation(q)
    /\ nList' = 1
    /\ nModel' = 0
    /\ nTool' = 0
    /\ outcome' = NoResult
    /\ printed' = NoPrint
    /\ available_tools' = <<>>
    /\ response_message' = NoResponse
    /\ tool_results' = <<>>
    /\ idx' = 0
    /\ result' = NoToolResult
    /\ request' = NoRequest
    /\ toolReq' = NoToolReq
    /\ pc' = "list_tools"
    /\ answers' = <<>>
    /\ UNCHANGED firstRun
    /\ UNCHANGED <<serverTools, reported, cleanups>>

\* list_tools answers; the tools are translated and the first model call made.
ListToolsReturns ==
    /\ pc = "list_tools"
    /\ available_tools' = TranslateAll(serverTools)
    /\ IssueModelCall(messages, available_tools')
    /\ answers' = Append(answers, Answer("tools", serverTools))
    /\ UNCHANGED firstRun
    /\ UNCHANGED <<query, messages, response_message, tool_results, idx,
                   result, serverTools, toolReq, outcome, printed, reported,
                   queries, nList, nTool, cleanups>>

\* list_tools raises.
ListToolsFails ==
    /\ pc = "list_tools"
    /\ FailListTools
    /\ answers' = Append(answers, Answer("list_tools_error", None))
    /\ UNCHANGED firstRun
    /\ UNCHANGED <<query, messages, response_message, tool_results, idx,
                   result, serverTools, toolReq, queries, nList, nTool,
                   cleanups>>

\* The model answers without tool calls.
ModelAnswers(resp) ==
    /\ pc = "model"
    /\ response_message' = resp
    /\ ReturnAnswer(resp)
    /\ answers' = Append(answers, Answer("response", resp))
    /\ UNCHANGED firstRun
    /\ UNCHANGED <<query, available_tools, tool_results, idx, result,
                   serverTools, request, toolReq, queries, nList, nModel,
                   nTool, cleanups>>

\* The model answers with tool calls; the first one is started.
ModelRequestsTools(resp) ==
    /\ pc = "model"
    /\ response_message' = resp
    /\ messages' = Append(messages, resp)
    /\ tool_results' = <<>>
    /\ RunToolCall(resp.tool_calls, 1)
    /\ answers' = Append(answers, Answer("response", resp))
    /\ UNCHANGED firstRun
    /\ UNCHANGED <<query, available_tools, result, serverTools, request,
                   queries, nList, nModel, cleanups>>

\* The model API call raises.
ModelFails ==
    /\ pc = "model"
    /\ Raise("APIError")
    /\ answers' = Append(answers, Answer("model_error", None))
    /\ UNCHANGED firstRun
    /\ UNCHANGED <<query, messages, available_tools, response_message,
                   tool_results, idx, result, serverTools, request, toolReq,
                   queries, nList, nModel, nTool, cleanups>>

\* call_tool returns a CallToolResult, and a further call of the round starts.
ToolReturnsMore(res) ==
    /\ pc = "tool"
    /\ idx < Len(tool_calls)
    /\ AppendResult(tool_calls[idx], res)
    /\ RunToolCall(tool_calls, idx + 1)
    /\ answers' = Append(answers, Answer("tool_result", res))
    /\ UNCHANGED firstRun
    /\ MessagesAwaitRoundEnd
    /\ UNCHANGED <<query, available_tools, response_message, serverTools,
                   request, queries, nList, nModel, cleanups>>

\* call_tool returns a CallToolResult for the last call of the round.
ToolReturnsLast(res) ==
    /\ pc = "tool"
    /\ idx = Len(tool_calls)
    /\ AppendResult(tool_calls[idx], res)
    /\ FinishRound(tool_results')
    /\ answers' = Append(answers, Answer("tool_result", res))
    /\ UNCHANGED firstRun
    /\ UNCHANGED <<query, available_tools, response_message, idx, serverTools,
                   toolReq, queries, nList, nTool, cleanups>>

\* call_tool raises (protocol error, transport error, timeout).
ToolRaises ==
    /\ pc = "tool"
    /\ Raise("McpError")
    /\ answers' = Append(answers, Answer("tool_error", None))
    /\ UNCHANGED firstRun
    /\ UNCHANGED <<query, messages, available_tools, response_message,
                   tool_results, idx, result, serverTools, request, toolReq,
                   queries, nList, nModel, nTool, cleanups>>

\* Variant of Cancel: main has no try/finally, so a cancellation ends the
\* program without cleanup.
CancelWithoutCleanup ==
    /\ pc \in {"input", "list_tools", "model", "tool"}
    /\ pc' = "exited"
    /\ UNCHANGED <<answers, firstRun>>
    /\ UNCHANGED <<query, messages, available_tools, response_message,
                   tool_results, idx, result, serverTools, request, toolReq,
                   outcome, printed, reported, queries, nList, nModel, nTool,
                   cleanups>>

\* The task is cancelled or interrupted at a suspension point: not an
\* Exception, so chat_loop does not catch it and main's finally runs.
Cancel ==
    /\ pc \in {"input", "list_tools", "model", "tool"}
    /\ pc' = "cleanup"
    /\ UNCHANGED <<answers, firstRun>>
    /\ UNCHANGED <<query, messages, available_tools, response_message,
                   tool_results, idx, result, serverTools, request, toolReq,
                   outcome, printed, reported, queries, nList, nModel, nTool,
                   cleanups>>

\* main: finally: await client.cleanup()
Cleanup ==
    /\ pc = "cleanup"
    /\ cleanups' = cleanups + 1
    /\ pc' = "exited"
    /\ UNCHANGED <<answers, firstRun>>
    /\ UNCHANGED <<query, messages, available_tools, response_message,
                   tool_results, idx, result, serverTools, request, toolReq,
                   outcome, printed, reported, queries, nList, nModel, nTool>>

\* The MCP server changes the tools it advertises.
ServerToolsChange ==
    /\ pc \in {"input", "list_tools", "model", "tool"}
    /\ serverTools' \in Catalogs \ {serverTools}
    /\ UNCHANGED <<answers, firstRun>>
    /\ UNCHANGED <<pc, query, messages, available_tools, response_message,
                   tool_results, idx, result, request, toolReq, outcome,
                   printed, reported, queries, nList, nModel, nTool, cleanups>>

Init ==
    /\ pc = "connect"
    /\ query = None
    /\ messages = <<>>
    /\ available_tools = <<>>
    /\ response_message = NoResponse
    /\ tool_results = <<>>
    /\ idx = 0
    /\ result = NoToolResult
    /\ serverTools \in Catalogs
    /\ request = NoRequest
    /\ toolReq = NoToolReq
    /\ outcome = NoResult
    /\ printed = NoPrint
    /\ reported = 0
    /\ queries = 0
    /\ nList = 0
    /\ nModel = 0
    /\ nTool = 0
    /\ cleanups = 0
    /\ answers = <<>>
    /\ firstRun = NoFirstRun

Next ==
    \/ Connect
    \/ ConnectFails
    \/ ReadQuit
    \/ ReadEmpty
    \/ \E q \in QueryTexts : ReadQuery(q)
    \/ ListToolsReturns
    \/ ListToolsFails
    \/ pc = "model" /\ \E resp \in FinalResponses : ModelAnswers(resp)
    \/ pc = "model" /\ \E resp \in ToolResponses(messages) : ModelRequestsTools(resp)
    \/ ModelFails
    \/ pc = "tool" /\ \E res \in ToolOutcomes(toolReq.name) : ToolReturnsMore(res)
    \/ pc = "tool" /\ \E res \in ToolOutcomes(toolReq.name) : ToolReturnsLast(res)
    \/ ToolRaises
    \/ Cancel
    \/ Cleanup
    \/ ServerToolsChange

Spec == Init /\ [][Next]_vars

(***************************************************************************)
(* Vocabulary of the properties.                                           *)
(***************************************************************************)
Returned == outcome.kind = "return"
RaisedWith(e) == outcome = [kind |-> "raise", value |-> e]

IsFinalTurn(t) == t.role = "assistant" /\ t.tool_calls = <<>>
IsCallTurn(t) == t.role = "assistant" /\ t.tool_calls # <<>>

\* Every assistant turn of msgs is followed at once by exactly one tool turn
\* per requested call, with the calls' identifiers in the calls' order, and
\* no tool turn stands anywhere else.
WellPaired(msgs) ==
    /\ \A i \in 1..Len(msgs) :
          msgs[i].role = "assistant" =>
              LET k == Len(msgs[i].tool_calls) IN
              /\ i + k <= Len(msgs)
              /\ \A j \in 1..k :
                    /\ msgs[i + j].role = "tool"
                    /\ msgs[i + j].tool_call_id = msgs[i].tool_calls[j].id
              /\ (i + k + 1 <= Len(msgs) => msgs[i + k + 1].role # "tool")
    /\ \A i \in 1..Len(msgs) :
          msgs[i].role = "tool" =>
              i > 1 /\ msgs[i - 1].role \in {"assistant", "tool"}

IsPrefix(a, b) == Len(a) <= Len(b) /\ SubSeq(b, 1, Len(a)) = a

(***************************************************************************)
(* C1.  As claimed: on every normal return of process_query the final      *)
(* answer is the last turn of Conversation State, an Assistant turn        *)
(* without tool calls.                                                     *)
(***************************************************************************)
C1_FinalAnswerAppended ==
    Returned =>
        /\ Len(messages) >= 2
        /\ IsFinalTurn(messages[Len(messages)])
        /\ messages[Len(messages)].content = outcome.value

\* C1, amended: on every normal return of process_query the final answer is
\* returned without being appended: Conversation State is exactly the history
\* given to the last model call and holds no Assistant turn without tool
\* calls.  After a query whose first response has no tool calls it holds one
\* turn (user); after exactly one round of k tool calls it holds k+2 turns in
\* the order user, assistant(with calls), k tool-results.
C1_FinalAnswerNotAppended ==
    Returned =>
        /\ messages = request.messages
        /\ messages[1].role = "user"
        /\ messages[1].content \in QueryTexts
        /\ \A i \in 1..Len(messages) : ~IsFinalTurn(messages[i])
        /\ (nModel = 1 => Len(messages) = 1)
        /\ (nModel = 2 =>
               /\ IsCallTurn(messages[2])
               /\ Len(messages) = Len(messages[2].tool_calls) + 2
               /\ \A j \in 1..Len(messages[2].tool_calls) :
                     messages[2 + j].role = "tool")

C1_Witness ==
    /\ Returned
    /\ nModel = 2
    /\ Len(messages) = 4
    /\ outcome.value = "There are 3 open issues."

(***************************************************************************)
(* C2.  As claimed: a malformed argument payload never aborts              *)
(* process_query with an error.                                            *)
(***************************************************************************)
C2_MalformedPayloadDoesNotAbort == ~RaisedWith("JSONDecodeError")

\* C2, amended: a tool call whose argument payload is malformed makes
\* process_query raise the parse error, which chat_loop reports: the query is
\* aborted with the Assistant turn as the last turn of Conversation State (no
\* Tool-result turn of the round appended), no further model call is issued,
\* and a tool invocation or a later model call is only ever reached by
\* payloads that parse.
C2_MalformedPayloadAborts ==
    /\ RaisedWith("JSONDecodeError") =>
          /\ printed = [kind |-> "error", text |-> "JSONDecodeError"]
          /\ messages[Len(messages)] = response_message
          /\ Len(tool_results) < Len(tool_calls)
          /\ tool_calls[Len(tool_results) + 1].function.arguments = BadPayload
          /\ request.messages = SubSeq(messages, 1, Len(messages) - 1)
    /\ pc = "tool" =>
          \A i \in 1..idx : tool_calls[i].function.arguments # BadPayload
    /\ \A i \in 1..Len(request.messages) :
          IsCallTurn(request.messages[i]) =>
              \A j \in 1..Len(request.messages[i].tool_calls) :
                  request.messages[i].tool_calls[j].function.arguments
                      # BadPayload

C2_Witness ==
    /\ RaisedWith("JSONDecodeError")
    /\ Len(tool_results) = 1
    /\ pc = "input"

(***************************************************************************)
(* C3.  Whenever a model call is issued, every Assistant turn with k       *)
(* requested tool calls in the history it is given is immediately followed *)
(* by exactly k Tool-result turns carrying the calls' identifiers in the   *)
(* calls' order.                                                           *)
(***************************************************************************)
C3_CallsAnsweredBeforeModelCall ==
    /\ WellPaired(request.messages)
    /\ pc = "model" => request.messages = messages

C3_Witness ==
    /\ pc = "model"
    /\ \E i \in 1..Len(request.messages) :
          /\ IsCallTurn(request.messages[i])
          /\ Len(request.messages[i].tool_calls) = 2

(***************************************************************************)
(* C4.  As claimed: whatever failure the tool invocation produces,         *)
(* process_query does not raise.                                           *)
(***************************************************************************)
C4_ToolFailureNeverRaises == ~RaisedWith("McpError")

\* C4, amended: a failure that call_tool reports as a returned result (an
\* unknown tool, a failed execution) does not make process_query raise: its
\* content is appended as the Tool-result turn of that call and the next
\* model call is issued with it in the history.  A failure that call_tool
\* raises is not captured: process_query raises it, chat_loop reports it, the
\* call gets no Tool-result turn and no further model call is issued.
C4_ReturnedFailureFedBack ==
    /\ (pc = "tool" /\ tool_results # <<>>) =>
          /\ Len(tool_results) = idx - 1
          /\ tool_results[idx - 1] = ToolTurn(tool_calls[idx - 1], result)
    /\ (pc = "model" /\ nModel > 1) =>
          /\ Len(tool_results) = Len(tool_calls)
          /\ tool_results[idx] = ToolTurn(tool_calls[idx], result)
          /\ Len(messages) > Len(tool_results)
          /\ SubSeq(messages, Len(messages) - Len(tool_results) + 1,
                    Len(messages)) = tool_results
          /\ request.messages = messages
    /\ RaisedWith("McpError") =>
          /\ printed = [kind |-> "error", text |-> "McpError"]
          /\ Len(tool_results) = idx - 1
          /\ messages[Len(messages)] = response_message
          /\ request.messages = SubSeq(messages, 1, Len(messages) - 1)

C4_Witness ==
    /\ pc = "model"
    /\ nModel > 1
    /\ result.isError
    /\ request.messages[Len(request.messages)].role = "tool"
    /\ request.messages[Len(request.messages)].content = "unknown tool"

(***************************************************************************)
(* C5.  process_query returns a value only in the step that receives a     *)
(* model response without tool calls.  After a response with tool calls it *)
(* never returns: when the last tool call of the round has returned, the   *)
(* next step is another model call, whatever the number of rounds so far.  *)
(* (A round that raises ends process_query by the exception, not a return.)*)
(***************************************************************************)
C5_ReturnOnlyWithoutToolCalls ==
    /\ [](Returned => IsFinalTurn(response_message))
    /\ [](IsCallTurn(response_message) => ~Returned)
    /\ [][(outcome' # outcome /\ outcome'.kind = "return") =>
              /\ pc = "model"
              /\ IsFinalTurn(response_message')]_vars
    /\ [][(pc = "tool" /\ idx = Len(tool_calls) /\ tool_results' # tool_results) =>
              /\ pc' = "model"
              /\ nModel' = nModel + 1
              /\ request'.messages = messages'
              /\ outcome' = NoResult]_vars

C5_Witness ==
    /\ pc = "model"
    /\ Rounds(messages) >= 2
    /\ nModel = Rounds(messages) + 1

(***************************************************************************)
(* C6.  For every query whose first model response has no tool calls,      *)
(* process_query returns that response's content unchanged, after exactly  *)
(* one model call and no tool invocation.                                  *)
(***************************************************************************)
C6_FirstAnswerReturnedUnchanged ==
    (IsFinalTurn(response_message) /\ Rounds(messages) = 0) =>
        /\ outcome = [kind |-> "return", value |-> response_message.content]
        /\ nModel = 1
        /\ nTool = 0
        /\ toolReq = NoToolReq

C6_Witness ==
    /\ Returned
    /\ nModel = 1
    /\ outcome.value = "There are 3 open issues."

(***************************************************************************)
(* C7.  Within one process_query invocation the length of Conversation     *)
(* State never decreases and every turn keeps its position and content     *)
(* (the old list is a prefix of the new one at every step).                *)
(***************************************************************************)
C7_AppendOnly ==
    [][queries' = queries => IsPrefix(messages, messages')]_vars

C7_Witness ==
    /\ pc = "model"
    /\ Len(messages) = 5
    /\ Rounds(messages) = 2

(***************************************************************************)
(* C8.  An Exception raised while a query is processed (a failed model-API *)
(* call or tool invocation among them) aborts only that query: chat_loop   *)
(* reports it and is back at input() with cleanup not run, and the next    *)
(* query starts from a Conversation State holding only its own User turn,  *)
(* which is all its first model call is given.                             *)
(***************************************************************************)
C8_FailureAbortsOnlyTheQuery ==
    /\ [][(outcome' # outcome /\ outcome'.kind = "raise") =>
              /\ pc' = "input"
              /\ printed' = [kind |-> "error", text |-> outcome'.value]
              /\ reported' = reported + 1
              /\ cleanups' = 0]_vars
    /\ [][queries' = queries + 1 =>
              /\ pc = "input"
              /\ messages' = <<UserTurn(query')>>
              /\ request' = NoRequest
              /\ tool_results' = <<>>]_vars
    /\ []((pc = "model" /\ nModel = 1) =>
              request.messages = <<UserTurn(query)>>)

C8_Witness ==
    /\ RaisedWith("McpError")
    /\ pc = "input"
    /\ queries = 2
    /\ reported = 2
    /\ cleanups = 0
    /\ messages[1] = UserTurn(query)

(***************************************************************************)
(* C9.  One query uses one tool snapshot: list_tools is called once per    *)
(* process_query, before the first model call, and every model call of the *)
(* query is given the list translated from that answer, even if the server *)
(* advertises other tools in between.                                      *)
(***************************************************************************)
C9_OneToolSnapshotPerQuery ==
    /\ [](pc = "list_tools" => nModel = 0 /\ nList = 1)
    /\ [](nModel >= 1 => request.tools = available_tools /\ nList = 1)
    /\ [][(queries' = queries /\ nModel >= 1) =>
              /\ available_tools' = available_tools
              /\ nList' = nList]_vars
    /\ [][(queries' = queries /\ request' # request) =>
              request'.tools = IF nModel = 0
                               THEN TranslateAll(serverTools)
                               ELSE request.tools]_vars

C9_Witness ==
    /\ pc = "model"
    /\ nModel >= 2
    /\ request.tools # TranslateAll(serverTools)

(***************************************************************************)
(* C10.  As claimed: if list_tools fails, no model call and no tool        *)
(* invocation is issued and no Conversation State has been created.        *)
(***************************************************************************)
C10_NoStateOnListToolsFailure ==
    RaisedWith("ListToolsError") =>
        /\ nModel = 0
        /\ nTool = 0
        /\ messages = <<>>

\* C10, amended: if list_tools fails, process_query raises at once: no model
\* call and no tool invocation is issued for that query (a first model call
\* is only made with a listing the server returned).  The Conversation State
\* was already created before list_tools was called; it holds the User turn
\* alone and is dropped with the failed query.
C10_FailFastOnListToolsFailure ==
    /\ [](RaisedWith("ListToolsError") =>
              /\ nModel = 0
              /\ nTool = 0
              /\ request = NoRequest
              /\ toolReq = NoToolReq
              /\ available_tools = <<>>
              /\ Len(messages) = 1
              /\ messages[1].role = "user"
              /\ printed = [kind |-> "error", text |-> "ListToolsError"])
    /\ [][(pc = "list_tools" /\ pc' = "model") =>
              /\ available_tools' = TranslateAll(serverTools)
              /\ request'.tools = available_tools']_vars
    /\ [][(pc = "list_tools" /\ pc' = "input") =>
              RaisedWith("ListToolsError")']_vars

C10_Witness ==
    /\ RaisedWith("ListToolsError")
    /\ pc = "input"
    /\ queries = 2
    /\ messages = <<UserTurn(query)>>

(***************************************************************************)
(* Vocabulary of the later properties.                                     *)
(***************************************************************************)
InFlight == pc \in {"list_tools", "model", "tool"}
ToolTurns(msgs) == Cardinality({i \in 1..Len(msgs) : msgs[i].role = "tool"})

(***************************************************************************)
(* C11.  At most one process_query is in flight: chat_loop starts a query  *)
(* only from input(), when the previous query has returned or raised, and  *)
(* while a query is in flight the model call and the tool invocation       *)
(* outstanding are those of that query.                                    *)
(***************************************************************************)
C11_OneQueryInFlight ==
    /\ [][queries' = queries + 1 =>
              /\ pc = "input"
              /\ ~InFlight
              /\ (queries = 0 \/ outcome.kind \in {"return", "raise"})]_vars
    /\ [](InFlight =>
              /\ outcome = NoResult
              /\ messages[1] = UserTurn(query))
    /\ [](pc \in {"model", "tool"} =>
              /\ request.messages[1] = UserTurn(query)
              /\ IsPrefix(request.messages, messages))
    /\ [][(InFlight /\ (request' # request \/ toolReq' # toolReq)) =>
              queries' = queries]_vars

C11_Witness ==
    /\ queries = 2
    /\ pc = "tool"
    /\ nTool = 2
    /\ reported = 0

(***************************************************************************)
(* Replay: process_query is run on a query, what it ended with is          *)
(* recorded, and the same text is processed again against a backend that   *)
(* gives the recorded answers in the recorded order.                       *)
(***************************************************************************)
Replaying == queries >= 2

\* The backend's next answer: free in the first run, the recorded one after.
Scripted(kind, value) ==
    \/ ~Replaying
    \/ /\ Len(answers) < Len(firstRun.answers)
       /\ firstRun.answers[Len(answers) + 1].kind = kind
       /\ firstRun.answers[Len(answers) + 1].value = value

RecordFirstRun ==
    /\ pc = "input"
    /\ queries = 1
    /\ firstRun.query = None
    /\ firstRun' = [query |-> query, answers |-> answers,
                    messages |-> messages, outcome |-> outcome]
    /\ UNCHANGED <<pc, query, messages, available_tools, response_message,
                   tool_results, idx, result, serverTools, request, toolReq,
                   outcome, printed, reported, queries, nList, nModel, nTool,
                   cleanups, answers>>

ReplayReadQuery ==
    \E q \in QueryTexts :
        /\ queries >= 1 => q = firstRun.query
        /\ ReadQuery(q)

ReplayNext ==
    \/ Connect
    \/ RecordFirstRun
    \/ ReplayReadQuery
    \/ Scripted("tools", serverTools) /\ ListToolsReturns
    \/ Scripted("list_tools_error", None) /\ ListToolsFails
    \/ pc = "model" /\ \E resp \in FinalResponses :
          Scripted("response", resp) /\ ModelAnswers(resp)
    \/ pc = "model" /\ \E resp \in ToolResponses(messages) :
          Scripted("response", resp) /\ ModelRequestsTools(resp)
    \/ Scripted("model_error", None) /\ ModelFails
    \/ pc = "tool" /\ \E res \in ToolOutcomes(toolReq.name) :
          Scripted("tool_result", res) /\ ToolReturnsMore(res)
    \/ pc = "tool" /\ \E res \in ToolOutcomes(toolReq.name) :
          Scripted("tool_result", res) /\ ToolReturnsLast(res)
    \/ Scripted("tool_error", None) /\ ToolRaises

ReplaySpec == Init /\ [][ReplayNext]_vars

(***************************************************************************)
(* C12.  Replaying process_query with the same user text against the same  *)
(* scripted model and tool-execution backend ends with the same            *)
(* Conversation State (same turns, same order) and the same outcome (the   *)
(* same final answer); on the way the replay's state is a prefix of the    *)
(* first run's.                                                            *)
(***************************************************************************)
C12_ReplayIsIdentical ==
    Replaying =>
        /\ IsPrefix(messages, firstRun.messages)
        /\ Len(answers) = Len(firstRun.answers) =>
              /\ messages = firstRun.messages
              /\ outcome = firstRun.outcome
        /\ outcome # NoResult =>
              /\ messages = firstRun.messages
              /\ outcome = firstRun.outcome

C12_Witness ==
    /\ Replaying
    /\ Returned
    /\ outcome.value = "There are 3 open issues."
    /\ Len(messages) = 4
    /\ messages = firstRun.messages
    /\ outcome = firstRun.outcome

(***************************************************************************)
(* C13.  A query cancelled at a suspension point is discarded whole: the   *)
(* cancelling step goes to main's finally without touching Conversation    *)
(* State, from then on no model call and no tool invocation is issued, no  *)
(* further query starts, the state (possibly ending in an Assistant turn   *)
(* with unanswered calls) is never sent to the model, and the only step    *)
(* left is cleanup, which has run once when main has exited.               *)
(***************************************************************************)
C13_CancelledQueryDiscarded ==
    /\ [][(InFlight /\ pc' \notin {"input", "list_tools", "model", "tool"}) =>
              /\ pc' = "cleanup"
              /\ (UNCHANGED <<messages, request, toolReq, nModel, nTool,
                              outcome, cleanups>>)]_vars
    /\ [][(pc \in {"cleanup", "exited"}) =>
              /\ pc' = "exited"
              /\ (UNCHANGED <<messages, request, toolReq, nModel, nTool,
                              queries, outcome>>)]_vars
    /\ [][pc = "cleanup" => cleanups' = cleanups + 1]_vars
    /\ [](pc = "exited" => cleanups = 1)

C13_Witness ==
    /\ pc = "exited"
    /\ cleanups = 1
    /\ queries >= 1
    /\ outcome = NoResult
    /\ IsCallTurn(messages[Len(messages)])
    /\ Len(tool_results) = 1
    /\ request.messages # messages

(***************************************************************************)
(* C14.  Every process_query starts from a fresh Conversation State that   *)
(* holds only its own User turn: that single turn is what its first model  *)
(* call receives, and every other turn of its history was appended by one  *)
(* of its own rounds, so no turn of an earlier query (successful or        *)
(* failed) is in it.                                                       *)
(***************************************************************************)
C14_FreshStatePerQuery ==
    /\ [][queries' = queries + 1 => (messages' = <<UserTurn(query')>>)]_vars
    /\ []((pc = "model" /\ nModel = 1) =>
              request.messages = <<UserTurn(query)>>)
    /\ [](InFlight =>
              /\ messages[1] = UserTurn(query)
              /\ \A i \in 2..Len(messages) : messages[i].role # "user"
              /\ Rounds(messages) = CASE pc = "list_tools" -> nModel
                                       [] pc = "model" -> nModel - 1
                                       [] pc = "tool" -> nModel
              /\ ToolTurns(messages) <= nTool)

C14_Witness ==
    /\ queries = 2
    /\ reported = 1
    /\ pc = "model"
    /\ nModel = 1
    /\ request.messages = <<UserTurn(query)>>

(***************************************************************************)
(* C15.  Each model call is given the whole Conversation State in          *)
(* insertion order: the history of a query's next model call is the        *)
(* history of its previous call, then the previous response's Assistant    *)
(* turn, then that round's Tool-result turns, one per call.                *)
(***************************************************************************)
C15_WholeHistoryToModel ==
    /\ [](pc = "model" => request.messages = messages)
    /\ [][(queries' = queries /\ nModel >= 1 /\ request' # request) =>
              /\ Len(tool_results') = Len(tool_calls)
              /\ request'.messages =
                     request.messages \o <<response_message>> \o tool_results'
              /\ \A j \in 1..Len(tool_calls) :
                     tool_results'[j].tool_call_id = tool_calls[j].id]_vars

C15_Witness ==
    /\ pc = "model"
    /\ nModel = 3
    /\ Len(request.messages) = 5

C17_InvokedOnlyOnRequest ==
    /\ [](pc = "tool" =>
              /\ idx \in 1..Len(tool_calls)
              /\ messages[Len(messages)].tool_calls = tool_calls
              /\ JsonLoads(tool_calls[idx].function.arguments).ok
              /\ toolReq.name = tool_calls[idx].function.name
              /\ toolReq.arguments =
                     JsonLoads(tool_calls[idx].function.arguments).value)
    /\ [][(queries' = queries /\ nTool' # nTool) =>
              /\ nTool' = nTool + 1
              /\ idx' = IF pc = "tool" THEN idx + 1 ELSE 1]_vars
    /\ [][(pc = "tool" /\ pc' = "model") =>
              nTool' - ToolTurns(messages) = Len(tool_calls)]_vars
    /\ [](pc = "model" => nTool = ToolTurns(messages))

C17_Witness ==
    /\ pc = "model"
    /\ nTool = 2
    /\ Rounds(messages) = 1
    /\ messages[3].name = "list_issues"
    /\ toolReq.name = "get_issue"

(***************************************************************************)
(* Progress: the backend answers every list_tools, model call and tool     *)
(* invocation without failure (no exception, well-formed arguments, no     *)
(* cancellation), the loop's steps are taken when they can be, and the     *)
(* model does not withhold a response without tool calls forever.          *)
(***************************************************************************)
GoodToolResponses(msgs) ==
    {resp \in ToolResponses(msgs) :
        \A i \in 1..Len(resp.tool_calls) :
            JsonLoads(resp.tool_calls[i].function.arguments).ok}

LiveModelAnswers == pc = "model" /\ \E resp \in FinalResponses : ModelAnswers(resp)

LiveModelRequestsTools ==
    pc = "model" /\ \E resp \in GoodToolResponses(messages) : ModelRequestsTools(resp)

LiveToolReturns ==
    pc = "tool" /\ \E res \in ToolOutcomes(toolReq.name) :
        ToolReturnsMore(res) \/ ToolReturnsLast(res)

LiveNext ==
    \/ Connect
    \/ \E q \in QueryTexts : ReadQuery(q)
    \/ ListToolsReturns
    \/ LiveModelAnswers
    \/ LiveModelRequestsTools
    \/ LiveToolReturns
    \/ ServerToolsChange

LiveFairness ==
    /\ WF_vars(ListToolsReturns)
    /\ WF_vars(LiveModelAnswers \/ LiveModelRequestsTools)
    /\ WF_vars(LiveToolReturns)
    /\ SF_vars(LiveModelAnswers)

LiveSpec == Init /\ [][LiveNext]_vars /\ LiveFairness

(***************************************************************************)
(* C18.  If no model call and no tool invocation fails and the model       *)
(* eventually answers without tool calls, a process_query that has         *)
(* started eventually returns (weak fairness of the loop's steps).         *)
(***************************************************************************)
C18_EventuallyReturns == InFlight ~> Returned

C18_Witness ==
    /\ Returned
    /\ nModel = 3
    /\ nTool = 2
    /\ Len(messages) = 5

(***************************************************************************)
(* C19.  While a round is under way none of its Tool-result turns is in    *)
(* Conversation State: if json.loads or call_tool fails part-way, the      *)
(* state still ends with the round's Assistant turn, also when earlier     *)
(* calls of the round had succeeded; Tool-result turns enter the state     *)
(* only all together, when the last call of the round has returned.        *)
(***************************************************************************)
C19_RoundResultsAppendedTogether ==
    /\ [](pc = "tool" => messages[Len(messages)] = response_message)
    /\ []((RaisedWith("McpError") \/ RaisedWith("JSONDecodeError")) =>
              /\ messages[Len(messages)] = response_message
              /\ IsCallTurn(messages[Len(messages)])
              /\ Len(tool_results) < Len(tool_calls))
    /\ [][(queries' = queries /\ ToolTurns(messages') # ToolTurns(messages)) =>
              /\ pc = "tool"
              /\ idx = Len(tool_calls)
              /\ Len(tool_results') = Len(tool_calls)
              /\ messages' = messages \o tool_results']_vars

C19_Witness ==
    /\ RaisedWith("McpError")
    /\ Len(tool_calls) = 2
    /\ Len(tool_results) = 1
    /\ Len(messages) = 2
    /\ IsCallTurn(messages[2])

(***************************************************************************)
(* C20.  Session cleanup runs exactly once on every exit path of main:     *)
(* main exits only through its finally clause, whether connecting failed,  *)
(* the chat loop ended on 'quit' or a cancellation escaped the chat loop,  *)
(* cleanup never runs a second time, and once it has run no query is       *)
(* read, and no model call or tool invocation is made.                     *)
(***************************************************************************)
C20_CleanupExactlyOnce ==
    /\ [](cleanups = IF pc = "exited" THEN 1 ELSE 0)
    /\ [][(pc' # pc /\ pc' \notin {"input", "list_tools", "model", "tool"}) =>
              \/ pc # "cleanup" /\ pc' = "cleanup" /\ cleanups' = cleanups
              \/ pc = "cleanup" /\ pc' = "exited" /\ cleanups' = cleanups + 1]_vars
    /\ [][(pc \in {"cleanup", "exited"}) =>
              /\ queries' = queries
              /\ nList' = nList
              /\ nModel' = nModel
              /\ nTool' = nTool
              /\ ~InFlight']_vars

C20_Witness ==
    /\ pc = "exited"
    /\ cleanups = 1
    /\ queries = 0
    /\ query = None

====
